---- MODULE Spec2Model ----
(***************************************************************************)
(* A model of src/animal_tracking_map.py: the Movebank client              *)
(* (get_movebank_studies, get_sample_data), the keyword classifier, the    *)
(* recency scorer, the colour mixer, generate_html_map and the path script *)
(* embedded in the report.                                                 *)
(*                                                                         *)
(* Representation.  Python strings that the code inspects character by     *)
(* character (study names, colours) are TLA+ strings.  Times are whole     *)
(* minutes since 1970-01-01T00:00Z; an epoch-millisecond number is held as *)
(* its quotient by 60000 (TLC integers are 32-bit).  A float intensity is  *)
(* held as its exact numerator over IntensityDen.                          *)
(***************************************************************************)
EXTENDS Integers, Sequences, FiniteSets, TLC

VARIABLES
    pc,                  \* where the run is
    upstream,            \* what the Movebank service answers in this run
    studies,             \* get_sample_data: the study list being looped over
    idx,                 \* get_sample_data: position of the loop in studies[:10]
    all_data,            \* get_sample_data: records retained so far
    successful_studies,  \* get_sample_data: studies counted as successful
    log,                 \* requests issued so far and how each attempt ended
    data,                \* main: the list handed to generate_html_map
    markers,             \* generate_html_map: the serialized markers
    animal_counts,       \* generate_html_map: taxon -> individuals counted
    individual_ids,      \* generate_html_map: identifiers seen
    animalPaths,         \* path script: the paths drawn
    arg,                 \* the argument of the function under study
    ret                  \* the value returned by the function under study

vars == <<pc, upstream, studies, idx, all_data, successful_studies, log, data,
          markers, animal_counts, individual_ids, animalPaths, arg, ret>>

(***************************************************************************)
(* Python helpers                                                          *)
(***************************************************************************)

\* dict.get(key, default)
Get(d, k, default) == IF k \in DOMAIN d THEN d[k] ELSE default

Min(a, b) == IF a <= b THEN a ELSE b
Max(a, b) == IF a >= b THEN a ELSE b

\* seq[:n]
Take(s, n) == SubSeq(s, 1, Min(Len(s), n))

\* One character, lower-cased (str.lower on the letters the model uses).
LowerChar(c) ==
    CASE c = "A" -> "a" [] c = "B" -> "b" [] c = "C" -> "c" [] c = "D" -> "d"
      [] c = "E" -> "e" [] c = "F" -> "f" [] c = "G" -> "g" [] c = "H" -> "h"
      [] c = "I" -> "i" [] c = "J" -> "j" [] c = "K" -> "k" [] c = "L" -> "l"
      [] c = "M" -> "m" [] c = "N" -> "n" [] c = "O" -> "o" [] c = "P" -> "p"
      [] c = "Q" -> "q" [] c = "R" -> "r" [] c = "S" -> "s" [] c = "T" -> "t"
      [] c = "U" -> "u" [] c = "V" -> "v" [] c = "W" -> "w" [] c = "X" -> "x"
      [] c = "Y" -> "y" [] c = "Z" -> "z" [] OTHER -> c

RECURSIVE LowerFrom(_, _)
LowerFrom(s, i) ==
    IF i > Len(s) THEN "" ELSE LowerChar(SubSeq(s, i, i)) \o LowerFrom(s, i + 1)

\* str.lower()
Lower(s) == LowerFrom(s, 1)

\* keyword in text
Contains(text, keyword) ==
    \E i \in 1..(Len(text) - Len(keyword) + 1) :
        SubSeq(text, i, i + Len(keyword) - 1) = keyword

(***************************************************************************)
(* classify_animal_from_study                                              *)
(***************************************************************************)

bird_keywords ==
    {"bird", "avian", "eagle", "hawk", "falcon", "owl", "swan", "crane",
     "stork", "tern", "albatross", "petrel", "gull", "duck", "goose"}

mammal_keywords ==
    {"mammal", "whale", "dolphin", "seal", "bear", "wolf", "deer",
     "elk", "caribou", "moose", "cat", "dog", "bat", "elephant"}

marine_keywords == {"fish", "shark", "tuna", "salmon", "turtle", "marine"}

reptile_keywords == {"turtle", "snake", "lizard", "reptile", "crocodile", "iguana"}

\* f"{study_name} {principal_investigator}", both lower-cased
text_to_check(info) ==
    Lower(Get(info, "name", "")) \o " "
        \o Lower(Get(info, "principal_investigator_name", ""))

\* any(keyword in text for keyword in keywords)
AnyKeyword(text, keywords) == \E k \in keywords : Contains(text, k)

\* Wrong variant: 'insect' where no keyword matches.
classify_default_insect(info) ==
    LET text == text_to_check(info) IN
    IF AnyKeyword(text, bird_keywords) THEN "bird"
    ELSE IF AnyKeyword(text, mammal_keywords) THEN "mammal"
    ELSE IF AnyKeyword(text, marine_keywords)
         THEN (IF AnyKeyword(text, reptile_keywords) THEN "reptile" ELSE "fish")
    ELSE IF AnyKeyword(text, reptile_keywords) THEN "reptile"
    ELSE "insect"

\* Wrong variant: the reptile test moved in front of the mammal and marine tests.
classify_reptile_early(info) ==
    LET text == text_to_check(info) IN
    IF AnyKeyword(text, bird_keywords) THEN "bird"
    ELSE IF AnyKeyword(text, reptile_keywords) THEN "reptile"
    ELSE IF AnyKeyword(text, mammal_keywords) THEN "mammal"
    ELSE IF AnyKeyword(text, marine_keywords) THEN "fish"
    ELSE "unknown"

classify_animal_from_study(info) ==
    LET text == text_to_check(info) IN
    IF AnyKeyword(text, bird_keywords) THEN "bird"
    ELSE IF AnyKeyword(text, mammal_keywords) THEN "mammal"
    ELSE IF AnyKeyword(text, marine_keywords)
         THEN IF AnyKeyword(text, reptile_keywords) THEN "reptile" ELSE "fish"
    ELSE IF AnyKeyword(text, reptile_keywords) THEN "reptile"
    ELSE "unknown"

(***************************************************************************)
(* Timestamps.  A timestamp value is a record [t, wall, tz, off]:          *)
(*   t = "iso"    an ISO-8601 string 'YYYY-MM-DDTHH:MM:SS' + suffix, wall  *)
(*                its wall-clock reading, tz the suffix: "none" (no        *)
(*                suffix), "Z", or "off" (a +HH:MM offset of off minutes)  *)
(*   t = "num"    a JSON number, wall its value / 60000                    *)
(*   t = "numstr" the same number written as a string of digits            *)
(*   t = "text"   any other non-empty string ('Unknown', 'n/a')            *)
(*   t = "empty"  the empty string;  t = "none"  JSON null                 *)
(***************************************************************************)

Ts(t, wall, tz, off) == [t |-> t, wall |-> wall, tz |-> tz, off |-> off]
TsIso(wall, tz, off) == Ts("iso", wall, tz, off)
TsNum(n) == Ts("num", n, "none", 0)
TsNumStr(n) == Ts("numstr", n, "none", 0)
TsText == Ts("text", 0, "none", 0)
TsEmpty == Ts("empty", 0, "none", 0)
TsNone == Ts("none", 0, "none", 0)

\* Python truthiness of a timestamp value
Truthy(ts) ==
    CASE ts.t \in {"empty", "none"} -> FALSE
      [] ts.t = "num" -> ts.wall # 0
      [] OTHER -> TRUE

\* n days, in minutes
Days(n) == 1440 * n

\* datetime(2024, 7, 31, tzinfo=timezone.utc), in minutes since the epoch
RefNow == 28706400

\* An intensity x is held as the integer x * IntensityDen.
IntensityDen == Days(180)
IntensityMin == (3 * IntensityDen) \div 10    \* 0.3
IntensityMax == IntensityDen                  \* 1.0
IntensityDefault == IntensityDen \div 2       \* 0.5

\* The try block of calculate_time_intensity: the instant the timestamp is
\* converted to, or "raise" when the conversion or the subtraction raises.
\*   str with 'T': fromisoformat(replace('Z', '+00:00')); a string without
\*   suffix gives a naive datetime, and 'now - dt' then raises TypeError.
\*   otherwise: fromtimestamp(float(timestamp) / 1000, tz=utc).
ParseInstant(ts) ==
    CASE ts.t = "iso" /\ ts.tz = "Z" -> [ok |-> TRUE, at |-> ts.wall]
      [] ts.t = "iso" /\ ts.tz = "off" -> [ok |-> TRUE, at |-> ts.wall - ts.off]
      [] ts.t \in {"num", "numstr"} -> [ok |-> TRUE, at |-> ts.wall]
      [] OTHER -> [ok |-> FALSE, at |-> 0]

\* Wrong variant: the age taken as dt - now.
intensity_age_reversed(ts) ==
    IF ~Truthy(ts) THEN IntensityDefault
    ELSE LET p == ParseInstant(ts) IN
         IF ~p.ok THEN IntensityDefault
         ELSE LET age == p.at - RefNow IN
              Max(IntensityMin, Min(IntensityMax, IntensityDen - age))

calculate_time_intensity(ts) ==
    IF ~Truthy(ts) THEN IntensityDefault
    ELSE LET p == ParseInstant(ts) IN
         IF ~p.ok THEN IntensityDefault
         ELSE LET age == RefNow - p.at IN
              Max(IntensityMin, Min(IntensityMax, IntensityDen - age))

(***************************************************************************)
(* adjust_color_intensity                                                  *)
(***************************************************************************)

HexChars == "0123456789abcdef"

\* The value of one hexadecimal digit (either case), -1 for any other character.
HexDigitVal(c) ==
    CASE c = "0" -> 0 [] c = "1" -> 1 [] c = "2" -> 2 [] c = "3" -> 3
      [] c = "4" -> 4 [] c = "5" -> 5 [] c = "6" -> 6 [] c = "7" -> 7
      [] c = "8" -> 8 [] c = "9" -> 9
      [] c \in {"a", "A"} -> 10 [] c \in {"b", "B"} -> 11
      [] c \in {"c", "C"} -> 12 [] c \in {"d", "D"} -> 13
      [] c \in {"e", "E"} -> 14 [] c \in {"f", "F"} -> 15
      [] OTHER -> -1

\* int(s, 16) of a slice of at most two characters; -1 when it raises.
ParseHex(s) ==
    CASE Len(s) = 1 -> HexDigitVal(s)
      [] Len(s) = 2 ->
            LET hi == HexDigitVal(SubSeq(s, 1, 1))
                lo == HexDigitVal(SubSeq(s, 2, 2))
            IN  IF hi < 0 \/ lo < 0 THEN -1 ELSE 16 * hi + lo
      [] OTHER -> -1

\* s[a:b] on a string, a and b 0-based as in Python
Slice(s, a, b) == SubSeq(s, a + 1, Min(b, Len(s)))

\* f"{n:02x}"
Hex2(n) == SubSeq(HexChars, (n \div 16) + 1, (n \div 16) + 1)
             \o SubSeq(HexChars, (n % 16) + 1, (n % 16) + 1)

\* round(num / den), Python 3: half to even
RoundDiv(num, den) ==
    LET q == num \div den
        r == num % den
    IN  IF 2 * r < den THEN q
        ELSE IF 2 * r > den THEN q + 1
        ELSE IF q % 2 = 0 THEN q ELSE q + 1

\* round(c + (255 - c) * white_blend), white_blend = 1 - intensity
Blend(c, intensity) ==
    RoundDiv(c * IntensityDen + (255 - c) * (IntensityDen - intensity), IntensityDen)

\* Wrong variant: the blend goes towards white as the intensity grows.
adjust_color_inverted(base_color, intensity) ==
    LET r == ParseHex(Slice(base_color, 1, 3))
        g == ParseHex(Slice(base_color, 3, 5))
        b == ParseHex(Slice(base_color, 5, 7))
    IN  IF r < 0 \/ g < 0 \/ b < 0 THEN base_color
        ELSE "#" \o Hex2(Blend(r, IntensityDen - intensity))
                 \o Hex2(Blend(g, IntensityDen - intensity))
                 \o Hex2(Blend(b, IntensityDen - intensity))

\* The hex digits are parsed in either case and written in lower case; the
\* except branch returns the input.
adjust_color_intensity(base_color, intensity) ==
    LET r == ParseHex(Slice(base_color, 1, 3))
        g == ParseHex(Slice(base_color, 3, 5))
        b == ParseHex(Slice(base_color, 5, 7))
    IN  IF r < 0 \/ g < 0 \/ b < 0 THEN base_color
        ELSE "#" \o Hex2(Blend(r, intensity)) \o Hex2(Blend(g, intensity))
                 \o Hex2(Blend(b, intensity))

animal_colors ==
    [bird |-> "#FF6B6B", mammal |-> "#4ECDC4", reptile |-> "#45B7D1",
     fish |-> "#96CEB4", amphibian |-> "#FFEAA7", insect |-> "#DDA0DD",
     unknown |-> "#74B9FF"]

(***************************************************************************)
(* Coordinates.  A coordinate value is a record [t, n]:                    *)
(*   "num"  a JSON number, n tenths of a      "str"  the number n as text  *)
(*          degree                                                         *)
(*   "text" a non-numeric string              "list" a non-empty JSON list *)
(*   "nan"  the float NaN                     "none" JSON null             *)
(* A key the record does not carry is a field the TLA+ record lacks.       *)
(***************************************************************************)

\* d degrees, in tenths of a degree
Deg(d) == 10 * d

CNum(n) == [t |-> "num", n |-> n]
CStr(n) == [t |-> "str", n |-> n]
CText == [t |-> "text", n |-> 0]
CList == [t |-> "list", n |-> 0]
CNaN == [t |-> "nan", n |-> 0]
CNone == [t |-> "none", n |-> 0]

\* Python truthiness of a coordinate value
CoordTruthy(c) ==
    CASE c.t = "none" -> FALSE
      [] c.t = "num" -> c.n # 0
      [] OTHER -> TRUE

\* float(c): "ok" with the number, "nan", or the exception raised
Float(c) ==
    CASE c.t \in {"num", "str"} -> [r |-> "ok", v |-> c.n]
      [] c.t = "nan" -> [r |-> "nan", v |-> 0]
      [] c.t = "text" -> [r |-> "ValueError", v |-> 0]
      [] OTHER -> [r |-> "TypeError", v |-> 0]

(***************************************************************************)
(* generate_html_map                                                       *)
(***************************************************************************)

\* str(timestamp)[:19] if timestamp else 'Unknown': the first 19 characters
\* of an ISO string end before its suffix; a number becomes its digits.
MarkerTimestamp(ts) ==
    IF ~Truthy(ts) THEN TsText
    ELSE CASE ts.t = "iso" -> TsIso(ts.wall, "none", 0)
           [] ts.t = "num" -> TsNumStr(ts.wall)
           [] OTHER -> ts

\* The marker appended for a record (lat and lng as float() returned them;
\* pos is its index in markers): st = [markers, animal_counts, individual_ids]
MarkerOf(st, record) ==
    LET timestamp == Get(record, "timestamp", TsEmpty)
        animal_type == Get(record, "animal_type", "unknown")
        intensity == calculate_time_intensity(timestamp)
        base_color == Get(animal_colors, animal_type, "#74B9FF")
    IN  [lat |-> Float(Get(record, "location_lat", CNum(0))),
         lng |-> Float(Get(record, "location_long", CNum(0))),
         color |-> adjust_color_intensity(base_color, intensity),
         baseColor |-> base_color,
         intensity |-> intensity,
         animal |-> animal_type,
         species |-> Get(record, "species", "Unknown Species"),
         timestamp |-> MarkerTimestamp(timestamp),
         individual_id |-> Get(record, "individual_local_identifier",
                               "animal_" \o ToString(Len(st.markers))),
         pos |-> Len(st.markers) + 1]

LoopBody(st, record) ==
    LET m == MarkerOf(st, record) IN
    [markers |-> Append(st.markers, m),
     individual_ids |-> st.individual_ids \cup {m.individual_id},
     animal_counts |->
         IF m.individual_id \in st.individual_ids THEN st.animal_counts
         ELSE [a \in DOMAIN st.animal_counts \cup {m.animal} |->
                 IF a = m.animal THEN Get(st.animal_counts, a, 0) + 1
                 ELSE st.animal_counts[a]]]

\* 'for record in data' over d[lo..hi], in order.  The range is halved and
\* the first half evaluated before the second (the test on its markers, one
\* per record, does that) to keep the evaluation shallow.
RECURSIVE LoopOver(_, _, _, _)
LoopOver(st, d, lo, hi) ==
    IF lo > hi THEN st
    ELSE IF lo = hi THEN LoopBody(st, d[lo])
    ELSE LET mid == (lo + hi) \div 2
             first == LoopOver(st, d, lo, mid)
         IN  IF Len(first.markers) < mid THEN first
             ELSE LoopOver(first, d, mid + 1, hi)

NoCounts == [a \in {} |-> 0]

generate_html_map(d) ==
    LoopOver([markers |-> <<>>, individual_ids |-> {}, animal_counts |-> NoCounts],
             d, 1, Len(d))

all_animal_types == <<"bird", "mammal", "reptile", "fish", "amphibian", "insect">>

\* The count the legend shows for a taxon
LegendCount(a) == Get(animal_counts, a, 0)

(***************************************************************************)
(* The path script of the report (run by the browser that opens it)        *)
(***************************************************************************)

\* new Date(timestamp) on a marker's timestamp string: the time value, or
\* NaN (Invalid Date) for a string that is not a date.  A date-time string
\* without suffix is read as local time: a constant shift, left out.
DateValue(s) ==
    IF s.t = "iso"
    THEN [nan |-> FALSE, v |-> IF s.tz = "off" THEN s.wall - s.off ELSE s.wall]
    ELSE [nan |-> TRUE, v |-> 0]

\* The comparator new Date(a.timestamp) - new Date(b.timestamp), as sort
\* reads it: its sign, NaN read as +0.
Comparator(a, b) ==
    LET x == DateValue(a.timestamp)
        y == DateValue(b.timestamp)
    IN  IF x.nan \/ y.nan THEN 0
        ELSE IF x.v < y.v THEN -1 ELSE IF x.v > y.v THEN 1 ELSE 0

\* A comparator is consistent on the points when 'compares equal' is
\* transitive: no point with an invalid date beside two points of
\* different valid dates.  Otherwise the sort order is implementation-defined.
ConsistentOn(points) ==
    ~ \E i, j, k \in 1..Len(points) :
        /\ DateValue(points[i].timestamp).nan
        /\ Comparator(points[j], points[k]) # 0

\* x inserted behind the last element of the sorted sequence that does not
\* compare greater than it
RECURSIVE InsertSorted(_, _)
InsertSorted(sorted, x) ==
    IF sorted = <<>> THEN <<x>>
    ELSE IF Comparator(sorted[Len(sorted)], x) > 0
         THEN Append(InsertSorted(SubSeq(sorted, 1, Len(sorted) - 1), x),
                     sorted[Len(sorted)])
         ELSE Append(sorted, x)

RECURSIVE StableSort(_, _)
StableSort(points, n) ==
    IF n = 0 THEN <<>> ELSE InsertSorted(StableSort(points, n - 1), points[n])

\* Array.prototype.sort: stable under a consistent comparator, any
\* arrangement of the points under an inconsistent one.
SortOutcomes(points) ==
    IF ConsistentOn(points) THEN {StableSort(points, Len(points))}
    ELSE {[i \in 1..Len(points) |-> points[p[i]]] :
              p \in Permutations(1..Len(points))}

\* The markers of one individual, in the order of animalData
RECURSIVE PointsOf(_, _, _)
PointsOf(ms, id, i) ==
    IF i > Len(ms) THEN <<>>
    ELSE IF ms[i].individual_id = id
         THEN <<ms[i]>> \o PointsOf(ms, id, i + 1)
         ELSE PointsOf(ms, id, i + 1)

\* The path entry of one individual: animal and baseColor are those of its
\* first point; a line is drawn for more than one point, over the sorted points.
PathEntries(ms, id) ==
    LET points == PointsOf(ms, id, 1) IN
    {[points |-> sorted, animal |-> points[1].animal,
      species |-> points[1].species, baseColor |-> points[1].baseColor,
      drawn |-> Len(points) > 1] :
        sorted \in IF Len(points) > 1 THEN SortOutcomes(points) ELSE {points}}

\* The individual identifiers of the markers, each once, in order of first
\* appearance (the keys of animalPaths)
RECURSIVE KeysOf(_, _)
KeysOf(ms, n) ==
    IF n = 0 THEN <<>>
    ELSE LET before == KeysOf(ms, n - 1) IN
         IF \E i \in 1..Len(before) : before[i] = ms[n].individual_id
         THEN before ELSE Append(before, ms[n].individual_id)

\* Every animalPaths object the script can end with, over the first k keys
RECURSIVE PathsOver(_, _, _)
PathsOver(ms, keys, k) ==
    IF k = 0 THEN {[id \in {} |-> 0]}
    ELSE {(keys[k] :> e) @@ f :
             f \in PathsOver(ms, keys, k - 1), e \in PathEntries(ms, keys[k])}

PathOutcomes(ms) == LET keys == KeysOf(ms, Len(ms)) IN PathsOver(ms, keys, Len(keys))

NoPaths == [id \in {} |-> 0]

(***************************************************************************)
(* Actions shared by the specifications                                    *)
(***************************************************************************)

\* mapper.generate_html_map(data): the loop over data and the legend
GenerateHtmlMap ==
    /\ pc = "render"
    /\ LET st == generate_html_map(data) IN
        /\ markers' = st.markers
        /\ animal_counts' = st.animal_counts
        /\ individual_ids' = st.individual_ids
    /\ pc' = "rendered"
    /\ UNCHANGED <<upstream, studies, idx, all_data, successful_studies, log,
                   data, animalPaths, arg, ret>>

\* The browser runs the embedded script over animalData
PathScript ==
    /\ pc = "rendered"
    /\ animalPaths' \in PathOutcomes(markers)
    /\ pc' = "drawn"
    /\ UNCHANGED <<upstream, studies, idx, all_data, successful_studies, log,
                   data, markers, animal_counts, individual_ids, arg, ret>>

(***************************************************************************)
(* SpecRender: generate_html_map and the path script on every input list   *)
(* of up to MaxPoints records.                                             *)
(***************************************************************************)

MaxPoints == 3

\* Three instants a day apart, the last one a day before the reference
T0 == RefNow - Days(3)
T1 == RefNow - Days(2)
T2 == RefNow - Days(1)

Rec(animal_type, ts, id) ==
    [location_lat |-> CNum(Deg(10)), location_long |-> CNum(Deg(20)),
     animal_type |-> animal_type, species |-> "Species",
     timestamp |-> ts, individual_local_identifier |-> id]

\* The same record without an individual identifier
RecNoId(animal_type, ts) ==
    [location_lat |-> CNum(Deg(10)), location_long |-> CNum(Deg(20)),
     animal_type |-> animal_type, species |-> "Species", timestamp |-> ts]

RenderRecords ==
    {Rec(a, TsIso(T0, "Z", 0), id) :
        a \in {"bird", "mammal"}, id \in {"X", "Y", "animal_1"}}
    \cup {RecNoId("bird", TsIso(T0, "Z", 0))}
    \cup {Rec("bird", ts, "X") :
            ts \in {TsIso(T1, "Z", 0), TsIso(T2, "Z", 0), TsNum(T0), TsNum(T1),
                    TsIso(T1 + 120, "off", 120), TsIso(T0 + 120, "none", 0),
                    TsText, TsEmpty}}

RECURSIVE ListsUpTo(_, _)
ListsUpTo(S, n) ==
    IF n = 0 THEN {<<>>}
    ELSE LET shorter == ListsUpTo(S, n - 1) IN
         shorter \cup {Append(l, x) : l \in {m \in shorter : Len(m) = n - 1}, x \in S}

\* The values of the variables a specification does not use
IdleFetch ==
    /\ upstream = <<>>
    /\ studies = <<>>
    /\ idx = 0
    /\ all_data = <<>>
    /\ successful_studies = 0
    /\ log = <<>>

IdleRender ==
    /\ markers = <<>>
    /\ animal_counts = NoCounts
    /\ individual_ids = {}
    /\ animalPaths = NoPaths

IdleCall ==
    /\ arg = <<>>
    /\ ret = <<>>

InitRender ==
    /\ pc = "render"
    /\ data \in ListsUpTo(RenderRecords, MaxPoints)
    /\ IdleFetch /\ IdleRender /\ IdleCall

NextRender == GenerateHtmlMap \/ PathScript

SpecRender == InitRender /\ [][NextRender]_vars

(***************************************************************************)
(* SpecClassify: classify_animal_from_study on every study whose name has  *)
(* up to MaxNameWords words of Words and whose investigator is absent or   *)
(* one word of Words.                                                      *)
(***************************************************************************)

MaxNameWords == 2

\* "Western" holds the bird keyword "tern", "Location" the mammal keyword
\* "cat"; "Turtle" is a marine and a reptile keyword.
Words == {"Tern", "Whale", "Tuna", "Turtle", "Snake", "Western", "Location",
          "Study"}

RECURSIVE NamesOf(_)
NamesOf(n) ==
    IF n = 1 THEN Words
    ELSE LET shorter == NamesOf(n - 1) IN
         shorter \cup {a \o " " \o w : a \in shorter, w \in Words}

StudyInfos ==
    LET names == NamesOf(MaxNameWords) IN
    {[id |-> 1]} \cup {[id |-> 1, name |-> n] : n \in names}
    \cup {[id |-> 1, principal_investigator_name |-> w] : w \in Words}
    \cup {[id |-> 1, name |-> n, principal_investigator_name |-> w] :
             n \in names, w \in Words}

InitClassify ==
    /\ pc = "classify"
    /\ arg \in StudyInfos
    /\ ret = <<>>
    /\ data = <<>>
    /\ IdleFetch /\ IdleRender

Classify ==
    /\ pc = "classify"
    /\ ret' = classify_animal_from_study(arg)
    /\ pc' = "classified"
    /\ UNCHANGED <<upstream, studies, idx, all_data, successful_studies, log,
                   data, markers, animal_counts, individual_ids, animalPaths, arg>>

NextClassify == Classify

SpecClassify == InitClassify /\ [][NextClassify]_vars

(***************************************************************************)
(* SpecIntensity: calculate_time_intensity on every pair of timestamps of  *)
(* TsInputs.                                                               *)
(***************************************************************************)

MaxAgeSteps == 7

\* Ages of -21, 0, 21, ... days (126 days is where the clamp at 0.3 sets
\* in), each also one minute older
AgeStep == Days(21)
Walls == {RefNow - (k * AgeStep + j) : k \in (-1)..MaxAgeSteps, j \in {0, 1}}

TsInputs ==
    {TsIso(w, "Z", 0) : w \in Walls}
    \cup {TsIso(w, "off", 120) : w \in Walls}
    \cup {TsIso(w, "none", 0) : w \in Walls}
    \cup {TsNum(w) : w \in Walls} \cup {TsNumStr(w) : w \in Walls}
    \cup {TsNum(0), TsText, TsEmpty, TsNone}

InitIntensity ==
    /\ pc = "score"
    /\ arg \in TsInputs \X TsInputs
    /\ ret = <<>>
    /\ data = <<>>
    /\ IdleFetch /\ IdleRender

Score ==
    /\ pc = "score"
    /\ ret' = <<calculate_time_intensity(arg[1]), calculate_time_intensity(arg[2])>>
    /\ pc' = "scored"
    /\ UNCHANGED <<upstream, studies, idx, all_data, successful_studies, log,
                   data, markers, animal_counts, individual_ids, animalPaths, arg>>

NextIntensity == Score

SpecIntensity == InitIntensity /\ [][NextIntensity]_vars

(***************************************************************************)
(* Claims on the report                                                    *)
(***************************************************************************)

\* The individual identifier of the i-th record of a list: the one the
\* record carries, else the synthetic identifier of its position
IdentifierOf(d, i) ==
    Get(d[i], "individual_local_identifier", "animal_" \o ToString(i - 1))

\* The individuals observed on the records of a taxon
IndividualsOf(d, a) ==
    {IdentifierOf(d, i) :
        i \in {j \in 1..Len(d) : Get(d[j], "animal_type", "unknown") = a}}

\* C7: for every input list and every taxon of the legend, the count the
\* legend shows equals the number of distinct individual identifiers that
\* occur on records of that taxon, also when an identifier occurs on
\* records of two taxa.
C7_LegendCountsIndividualsPerTaxon ==
    pc \in {"rendered", "drawn"} =>
        \A k \in 1..Len(all_animal_types) :
            LegendCount(all_animal_types[k])
                = Cardinality(IndividualsOf(data, all_animal_types[k]))

\* The instant a record's timestamp denotes: an ISO-8601 string (its
\* wall-clock reading less its UTC offset) or an epoch value; "ok" is
\* FALSE for a timestamp that is neither.
InstantOf(ts) ==
    CASE ts.t = "iso" -> [ok |-> TRUE, at |-> ts.wall - ts.off]
      [] ts.t \in {"num", "numstr"} -> [ok |-> TRUE, at |-> ts.wall]
      [] OTHER -> [ok |-> FALSE, at |-> 0]

\* Two points of a path are in order: ascending instants, and the original
\* relative order for equal or unparsable timestamps
InPathOrder(a, b) ==
    LET ta == InstantOf(Get(data[a.pos], "timestamp", TsEmpty))
        tb == InstantOf(Get(data[b.pos], "timestamp", TsEmpty))
    IN  IF ta.ok /\ tb.ok /\ ta.at # tb.at THEN ta.at < tb.at
        ELSE a.pos < b.pos

\* C8: for every individual with two or more markers, in every input
\* order, the path lists its markers in ascending order of their
\* timestamps (ISO-8601 strings or epoch-millisecond values); markers with
\* equal or unparsable timestamps keep their original relative order.
C8_PathsAscendByTimestamp ==
    pc = "drawn" =>
        \A id \in DOMAIN animalPaths :
            LET points == animalPaths[id].points IN
            \A i, j \in 1..Len(points) :
                i < j => InPathOrder(points[i], points[j])

(***************************************************************************)
(* Claims on the classifier and the recency scorer                         *)
(***************************************************************************)

\* The taxon the documented precedence gives for a combination of matches
Precedence(bird, mammal, marine, reptile) ==
    CASE bird -> "bird"
      [] ~bird /\ mammal -> "mammal"
      [] ~bird /\ ~mammal /\ marine /\ reptile -> "reptile"
      [] ~bird /\ ~mammal /\ marine /\ ~reptile -> "fish"
      [] ~bird /\ ~mammal /\ ~marine /\ reptile -> "reptile"
      [] OTHER -> "unknown"

Matches(keywords) == AnyKeyword(text_to_check(arg), keywords)

\* C9: the taxon returned is a function of which of the four keyword sets
\* match the lower-cased 'name investigator' text: bird wins, then mammal,
\* then marine (reptile if a reptile keyword matches too, else fish), then
\* reptile, else unknown.
C9_ClassifierPrecedence ==
    pc = "classified" =>
        ret = Precedence(Matches(bird_keywords), Matches(mammal_keywords),
                         Matches(marine_keywords), Matches(reptile_keywords))

\* Witness of C9: a study matching marine and reptile keywords only
\* (through two different words) has been classified as reptile.
C9_Witness ==
    /\ pc = "classified"
    /\ Get(arg, "name", "") = "Tuna Snake"
    /\ ~Matches(bird_keywords) /\ ~Matches(mammal_keywords)
    /\ Matches(marine_keywords) /\ Matches(reptile_keywords)
    /\ ret = "reptile"

\* A timestamp parses when it is present and the scorer converts it.
Parses(ts) == Truthy(ts) /\ ParseInstant(ts).ok

Demo(lat, lon, animal_type, species, wall, id) ==
    [location_lat |-> CNum(lat), location_long |-> CNum(lon),
     animal_type |-> animal_type, species |-> species,
     timestamp |-> TsIso(wall, "Z", 0), individual_local_identifier |-> id]

DemoData == <<
    Demo(710, -80, "bird", "Arctic Tern", 28421880, "tern_001"),
    Demo(650, -180, "bird", "Arctic Tern", 28488240, "tern_001"),
    Demo(550, -250, "bird", "Arctic Tern", 28596360, "tern_001"),
    Demo(400, -350, "bird", "Arctic Tern", 28620960, "tern_001"),
    Demo(200, -450, "bird", "Arctic Tern", 28684440, "tern_001"),
    Demo(600, -1650, "mammal", "Gray Whale", 28421760, "whale_001"),
    Demo(550, -1550, "mammal", "Gray Whale", 28466520, "whale_001"),
    Demo(450, -1250, "mammal", "Gray Whale", 28532880, "whale_001"),
    Demo(350, -1200, "mammal", "Gray Whale", 28596360, "whale_001"),
    Demo(250, -1150, "mammal", "Gray Whale", 28684320, "whale_001"),
    Demo(300, -800, "reptile", "Loggerhead Turtle", 28446300, "turtle_001"),
    Demo(280, -750, "reptile", "Loggerhead Turtle", 28508340, "turtle_001"),
    Demo(250, -700, "reptile", "Loggerhead Turtle", 28576140, "turtle_001"),
    Demo(200, -650, "reptile", "Loggerhead Turtle", 28633860, "turtle_001"),
    Demo(150, -600, "reptile", "Loggerhead Turtle", 28691580, "turtle_001"),
    Demo(450, -500, "fish", "Atlantic Bluefin Tuna", 28414560, "tuna_001"),
    Demo(400, -450, "fish", "Atlantic Bluefin Tuna", 28473720, "tuna_001"),
    Demo(350, -400, "fish", "Atlantic Bluefin Tuna", 28553040, "tuna_001"),
    Demo(300, -350, "fish", "Atlantic Bluefin Tuna", 28626600, "tuna_001"),
    Demo(250, -300, "fish", "Atlantic Bluefin Tuna", 28698720, "tuna_001"),
    Demo(520, 50, "amphibian", "European Tree Frog", 28488000, "frog_001"),
    Demo(515, 45, "amphibian", "European Tree Frog", 28532760, "frog_001"),
    Demo(510, 40, "amphibian", "European Tree Frog", 28576080, "frog_001"),
    Demo(505, 35, "amphibian", "European Tree Frog", 28620840, "frog_001"),
    Demo(500, 30, "amphibian", "European Tree Frog", 28664160, "frog_001"),
    Demo(500, -950, "insect", "Monarch Butterfly", 28466400, "monarch_001"),
    Demo(450, -900, "insect", "Monarch Butterfly", 28529880, "monarch_001"),
    Demo(400, -850, "insect", "Monarch Butterfly", 28596240, "monarch_001"),
    Demo(350, -1000, "insect", "Monarch Butterfly", 28648200, "monarch_001"),
    Demo(250, -1050, "insect", "Monarch Butterfly", 28705920, "monarch_001") >>

(***************************************************************************)
(* extract_species_from_study                                              *)
(***************************************************************************)

species_patterns ==
    << <<"arctic tern", "Arctic Tern">>, <<"gray whale", "Gray Whale">>,
       <<"humpback whale", "Humpback Whale">>, <<"loggerhead", "Loggerhead Turtle">>,
       <<"bald eagle", "Bald Eagle">>, <<"golden eagle", "Golden Eagle">>,
       <<"brown bear", "Brown Bear">>, <<"polar bear", "Polar Bear">>,
       <<"caribou", "Caribou">>, <<"elk", "Elk">>,
       <<"white shark", "Great White Shark">>, <<"bluefin tuna", "Bluefin Tuna">> >>

\* str.split(): the words of s from position i on, w the word being read
RECURSIVE SplitFrom(_, _, _)
SplitFrom(s, i, w) ==
    IF i > Len(s) THEN (IF w = "" THEN <<>> ELSE <<w>>)
    ELSE IF SubSeq(s, i, i) = " "
         THEN (IF w = "" THEN <<>> ELSE <<w>>) \o SplitFrom(s, i + 1, "")
         ELSE SplitFrom(s, i + 1, w \o SubSeq(s, i, i))

extract_species_from_study(info) ==
    LET study_name == Get(info, "name", "")
        study_lower == Lower(study_name)
        hits == {k \in 1..Len(species_patterns) :
                    Contains(study_lower, species_patterns[k][1])}
        words == SplitFrom(study_name, 1, "")
    IN  IF hits # {}
        THEN species_patterns[CHOOSE k \in hits : \A j \in hits : k <= j][2]
        ELSE IF Len(words) >= 2 THEN words[1] \o " " \o words[2]
        ELSE "Unknown Species"

(***************************************************************************)
(* The Movebank service.  A response is [r, shape, items]: r is "ok" (a    *)
(* 200 answer with a JSON body), "non200", "unparsable" (200, json()       *)
(* raises), "exception" (a transport error) or "timeout"; for "ok", shape  *)
(* is "list" (items its elements), "object" (items its one dict, <<>> for  *)
(* an object that is no study) or "strings" (a list of strings).           *)
(* "none" stands for a request that was not issued.                        *)
(***************************************************************************)

Resp(r, shape, items) == [r |-> r, shape |-> shape, items |-> items]
Fault(f) == Resp(f, "none", <<>>)
NoRequest == Resp("none", "none", <<>>)
Faults == {"exception", "timeout", "non200", "unparsable"}

\* The exception a request raises, "" when it raises none: requests.get
\* raises on a transport error or timeout, response.json() on a bad body.
RaisedBy(resp) ==
    CASE resp.r = "exception" -> "ConnectionError"
      [] resp.r = "timeout" -> "Timeout"
      [] resp.r = "unparsable" -> "JSONDecodeError"
      [] OTHER -> ""

\* 'except ValueError' (line 134): ValueError and its subclasses
ExceptValueError(e) == e \in {"ValueError", "JSONDecodeError"}

\* Wrong variant: the handler of the study loop catches ValueError only.
ExceptOnlyValueError(e) == e \in {"ValueError", "JSONDecodeError"}

\* 'except Exception' (lines 36 and 141): every exception the code can raise
ExceptException(e) == TRUE

\* s.get('is_test', False) == False and s.get('has_quota', False) == False
IsPublic(s) == Get(s, "is_test", FALSE) = FALSE /\ Get(s, "has_quota", FALSE) = FALSE

\* get_movebank_studies, given the answer to its request: the first 20
\* public studies of a 200 answer; [] after a caught exception (the request
\* or json() raising, or a body whose elements have no .get) or a non-200.
get_movebank_studies(resp) ==
    IF resp.r = "ok" /\ resp.shape = "list"
    THEN Take(SelectSeq(resp.items, IsPublic), 20)
    ELSE <<>>

\* The exception raised inside get_movebank_studies, "" for none
StudiesRaised(resp) ==
    IF RaisedBy(resp) # "" THEN RaisedBy(resp)
    ELSE IF resp.r = "ok" /\ resp.shape # "list" /\ resp.items # <<>>
         THEN "AttributeError" ELSE ""

known_study_ids == <<[id |-> 2911040], [id |-> 173641633], [id |-> 76367850]>>

(***************************************************************************)
(* get_sample_data: one pass of the loop over studies[:10]                 *)
(***************************************************************************)

\* Wrong variant: the longitude test left out.
InRangeLatOnly(lat, lon) ==
    /\ lat.r = "ok" /\ lon.r = "ok"
    /\ Deg(-90) <= lat.v /\ lat.v <= Deg(90)

\* -90 <= lat <= 90 and -180 <= lon <= 180 (false for a NaN)
InRange(lat, lon) ==
    /\ lat.r = "ok" /\ lon.r = "ok"
    /\ Deg(-90) <= lat.v /\ lat.v <= Deg(90)
    /\ Deg(-180) <= lon.v /\ lon.v <= Deg(180)

\* The record as retained: the three derived fields set
Retained(record, study, study_id, animal_type) ==
    [k \in DOMAIN record \cup {"animal_type", "study_name", "species"} |->
        CASE k = "animal_type" -> animal_type
          [] k = "study_name" -> Get(study, "name", "Study " \o ToString(study_id))
          [] k = "species" -> extract_species_from_study(study)
          [] OTHER -> record[k]]

\* One pass of 'for record in data' (lines 121-135):
\* acc = [all_data, valid_records, raised]; nothing runs after a raise
RecordStep(acc, record, study, study_id, animal_type) ==
    LET lat == Get(record, "location_lat", CNone)
        lon == Get(record, "location_long", CNone)
        flat == Float(lat)
        flon == Float(lon)
        \* float(lat) is evaluated first; float(lon) only if it returns
        e == IF flat.r \in {"ValueError", "TypeError"} THEN flat.r
             ELSE IF flon.r \in {"ValueError", "TypeError"} THEN flon.r
             ELSE ""
    IN
    IF acc.raised # "" THEN acc
    ELSE IF ~(CoordTruthy(lat) /\ CoordTruthy(lon)) THEN acc
    ELSE IF e # ""
         THEN (IF ExceptValueError(e) THEN acc ELSE [acc EXCEPT !.raised = e])
    ELSE IF InRange(flat, flon)
         THEN [acc EXCEPT
                 !.all_data = Append(@, Retained(record, study, study_id,
                                                 animal_type)),
                 !.valid_records = @ + 1]
    ELSE acc

\* The loop over recs[lo..hi], in order and up to a raise (the range is
\* halved to keep the evaluation shallow)
RECURSIVE OverRecords(_, _, _, _, _, _, _)
OverRecords(acc, recs, lo, hi, study, study_id, animal_type) ==
    IF lo > hi THEN acc
    ELSE IF lo = hi THEN RecordStep(acc, recs[lo], study, study_id, animal_type)
    ELSE LET mid == (lo + hi) \div 2
             first == OverRecords(acc, recs, lo, mid, study, study_id, animal_type)
         IN  IF first.raised # "" THEN first
             ELSE OverRecords(first, recs, mid + 1, hi, study, study_id,
                              animal_type)

\* Lines 96-102: the single-study lookup of a study that has no 'name':
\* [study, raised]
LookupStep(study, resp) ==
    IF "name" \in DOMAIN study THEN [study |-> study, raised |-> ""]
    ELSE IF RaisedBy(resp) # "" THEN [study |-> study, raised |-> RaisedBy(resp)]
    ELSE IF resp.r # "ok" \/ resp.items = <<>> THEN [study |-> study, raised |-> ""]
    ELSE IF resp.shape = "strings"
         THEN [study |-> study, raised |-> "ValueError"]   \* dict.update(str)
    ELSE [study |-> resp.items[1] @@ study, raised |-> ""]

\* Lines 115-139: the event query and the processing of its answer:
\* [all_data, successful_studies, raised]
EventStep(study, study_id, animal_type, resp, all, successful) ==
    LET unchanged == [all_data |-> all, successful_studies |-> successful,
                      raised |-> ""]
    IN
    IF RaisedBy(resp) # "" THEN [unchanged EXCEPT !.raised = RaisedBy(resp)]
    ELSE IF resp.r # "ok" \/ resp.items = <<>> THEN unchanged
    ELSE IF resp.shape # "list"
         THEN [unchanged EXCEPT !.raised = "AttributeError"]  \* key.get(...)
    ELSE LET acc == OverRecords([all_data |-> all, valid_records |-> 0,
                                 raised |-> ""],
                                resp.items, 1, Len(resp.items), study, study_id,
                                animal_type)
         IN  [all_data |-> acc.all_data,
              successful_studies |->
                  IF acc.raised = "" /\ acc.valid_records > 0
                  THEN successful + 1 ELSE successful,
              raised |-> acc.raised]

(***************************************************************************)
(* What the service answers.  upstream = [profile, budget]: under profile  *)
(* "records" the answers are short and varied, and at most MaxAnswers      *)
(* event answers of a run carry records; under profile "bulk" the study    *)
(* list and the event answers are long and uniform, and at most MaxPartial *)
(* event answers of a run hold a record that cannot be processed.  budget  *)
(* is what is left of that number.                                         *)
(***************************************************************************)

MaxListed == 2      \* studies in a study list, profile "records"
MaxAnswers == 1     \* event answers with records in a run, profile "records"
MaxPartial == 1     \* event answers with a bad record in a run, profile "bulk"
ExtraStudies == 1   \* studies listed beyond the cap of 20, profile "bulk"
BulkLen == 61       \* records of a long event answer, profile "bulk"

Event(lat, lon) ==
    [location_lat |-> lat, location_long |-> lon,
     timestamp |-> TsIso(T0, "Z", 0), individual_local_identifier |-> "X"]

\* The same event without a latitude
EventNoLat(lon) ==
    [location_long |-> lon,
     timestamp |-> TsIso(T0, "Z", 0), individual_local_identifier |-> "X"]

Plain == Event(CNum(Deg(45)), CNum(Deg(20)))

RecordKinds ==
    {Event(lat, CNum(Deg(20))) :
        lat \in {CNum(0), CStr(0), CNum(Deg(90)), CNum(Deg(-90)),
                 CNum(Deg(90) + 1), CNum(Deg(-90) - 1), CText, CList, CNaN}}
    \cup {EventNoLat(CNum(Deg(20)))}
    \cup {Event(CNum(Deg(45)), lon) :
            lon \in {CNum(0), CNum(Deg(180)), CNum(Deg(-180)), CNum(Deg(180) + 1),
                     CNum(Deg(100))}}

\* An event that carries a taxon of its own
Tagged == [animal_type |-> "insect"] @@ Plain

EventLists ==
    {<<Plain>>, <<Tagged>>, <<Event(CNum(0), CNum(Deg(20)))>>,
     <<Event(CText, CNum(Deg(20)))>>}
    \cup {<<Plain, k>> : k \in RecordKinds}
    \cup {<<Event(CList, CNum(Deg(20))), Plain>>}

StudyKinds ==
    {[id |-> 11, name |-> "Arctic Tern Migration Study",
      is_test |-> FALSE, has_quota |-> FALSE],
     [id |-> 12],
     [id |-> 0, name |-> "Bluefin Tuna Study"],
     [name |-> "Sea Turtle Project"],
     [id |-> 13, name |-> "Gray Whale Tracking", is_test |-> TRUE],
     [id |-> 14, name |-> "Snake Study", has_quota |-> TRUE]}

\* What a single-study lookup answers with
StudyInfo == [name |-> "Gray Whale Tracking", principal_investigator_name |-> "Kim"]

\* n studies of a long list, the i-th with identifier 100 + i
BulkStudies(n) ==
    [i \in 1..n |-> [id |-> 100 + i, name |-> "Bluefin Tuna Study",
                     is_test |-> FALSE, has_quota |-> FALSE]]

ListResponses ==
    IF upstream.profile = "records"
    THEN {Fault(f) : f \in Faults}
         \cup {Resp("ok", "object", <<StudyInfo>>)}
         \cup {Resp("ok", "list", l) : l \in ListsUpTo(StudyKinds, MaxListed)}
    ELSE {Fault("exception"), Resp("ok", "list", BulkStudies(20 + ExtraStudies))}

LookupResponses ==
    IF upstream.profile = "records"
    THEN {Fault(f) : f \in Faults}
         \cup {Resp("ok", "list", <<>>), Resp("ok", "list", <<StudyInfo>>),
               Resp("ok", "object", <<StudyInfo>>), Resp("ok", "strings", <<"x">>)}
    ELSE {Resp("ok", "list", <<StudyInfo>>)}

EventResponses ==
    IF upstream.profile = "records"
    THEN {Fault(f) : f \in Faults}
         \cup {Resp("ok", "list", <<>>), Resp("ok", "object", <<StudyInfo>>)}
         \cup (IF upstream.budget > 0
               THEN {Resp("ok", "list", l) : l \in EventLists} ELSE {})
    ELSE {Fault("non200"), Resp("ok", "list", [i \in 1..BulkLen |-> Plain])}
         \cup (IF upstream.budget > 0
               THEN {Resp("ok", "list", <<Plain, Event(CList, CNum(Deg(20)))>>)}
               ELSE {})

(***************************************************************************)
(* main and get_sample_data                                                *)
(***************************************************************************)

\* What the run has done, kept for the properties: the answer to the list
\* request and the number of studies get_movebank_studies returned; of the
\* last pass of the loop its index, the answers to its two requests, the
\* records of the event answer, the exception it raised and the length of
\* all_data before it; whether any request of the run was answered with a
\* 200 and a body; the number of passes that appended to all_data.
NoLog ==
    [list |-> "none", found |-> 0, study |-> 0, lookup |-> "none",
     event |-> "none", returned |-> <<>>, raised |-> "", before |-> 0,
     answered |-> FALSE, contributing |-> 0]

\* studies[:10]
Attempted == Take(studies, 10)

\* get_sample_data up to the loop: get_movebank_studies and the fallback
\* to the known study identifiers
FetchStudies ==
    /\ pc = "start"
    /\ \E resp \in ListResponses :
         LET e == StudiesRaised(resp)
             found == get_movebank_studies(resp)
         IN  /\ pc' = IF e # "" /\ ~ExceptException(e) THEN "crashed" ELSE "loop"
             /\ studies' = IF found = <<>> THEN known_study_ids ELSE found
             /\ log' = [NoLog EXCEPT !.list = resp.r, !.found = Len(found),
                                     !.answered = (resp.r = "ok")]
    /\ idx' = 1
    /\ all_data' = <<>>
    /\ successful_studies' = 0
    /\ UNCHANGED <<upstream, data, markers, animal_counts, individual_ids,
                   animalPaths, arg, ret>>

\* One pass of 'for study in studies[:10]', with the answers to its requests
LoopStudy ==
    /\ pc = "loop"
    /\ idx <= Len(Attempted)
    /\ LET study == studies[idx]
           study_id == Get(study, "id", 0)
       IN
       IF study_id = 0      \* if not study_id: continue
       THEN /\ idx' = idx + 1
            /\ log' = [log EXCEPT !.study = idx, !.lookup = "none", !.event = "none",
                                  !.returned = <<>>, !.raised = "",
                                  !.before = Len(all_data)]
            /\ UNCHANGED <<pc, upstream, studies, all_data, successful_studies>>
       ELSE
         \E lresp \in IF "name" \in DOMAIN study THEN {NoRequest} ELSE LookupResponses :
           LET looked == LookupStep(study, lresp)
               animal_type == IF looked.raised # "" THEN "unknown"
                              ELSE classify_animal_from_study(looked.study)
           IN
           \E eresp \in IF looked.raised # "" THEN {NoRequest} ELSE EventResponses :
             LET done == IF looked.raised # ""
                         THEN [all_data |-> all_data,
                               successful_studies |-> successful_studies,
                               raised |-> looked.raised]
                         ELSE EventStep(looked.study, study_id, animal_type, eresp,
                                        all_data, successful_studies)
             IN
             /\ studies' = [studies EXCEPT ![idx] = looked.study]
             /\ all_data' = done.all_data
             /\ successful_studies' = done.successful_studies
             /\ upstream' = [upstream EXCEPT
                               !.budget = IF eresp.shape = "list"
                                             /\ eresp.items # <<>>
                                             /\ (upstream.profile = "records"
                                                 \/ Len(eresp.items) < BulkLen)
                                          THEN @ - 1 ELSE @]
             /\ log' = [log EXCEPT
                          !.study = idx, !.lookup = lresp.r, !.event = eresp.r,
                          !.returned = IF eresp.shape = "list" THEN eresp.items
                                       ELSE <<>>,
                          !.raised = done.raised, !.before = Len(all_data),
                          !.answered = @ \/ lresp.r = "ok" \/ eresp.r = "ok",
                          !.contributing =
                              IF Len(done.all_data) > Len(all_data) THEN @ + 1
                              ELSE @]
             /\ IF done.raised # ""
                THEN \* except Exception: continue
                     /\ pc' = IF ExceptException(done.raised) THEN "loop" ELSE "crashed"
                     /\ idx' = idx + 1
                ELSE IF done.successful_studies >= 5
                     THEN pc' = "break" /\ idx' = idx
                     ELSE pc' = "loop" /\ idx' = idx + 1
    /\ UNCHANGED <<data, markers, animal_counts, individual_ids, animalPaths,
                   arg, ret>>

\* Wrong variant: the [:300] slice left out.
returned_unsliced(all) == all

\* return all_data[:300]
returned_data(all) == Take(all, 300)

\* get_sample_data returns, the loop exhausted or left by break
Return ==
    /\ pc = "break" \/ (pc = "loop" /\ idx > Len(Attempted))
    /\ ret' = returned_data(all_data)
    /\ pc' = "returned"
    /\ UNCHANGED <<upstream, studies, idx, all_data, successful_studies, log,
                   data, markers, animal_counts, individual_ids, animalPaths, arg>>

\* Wrong variant: no demonstration dataset.
main_data_no_demo(returned) == returned

\* main: 'if not data:' substitutes the demonstration dataset
main_data(returned) == IF returned = <<>> THEN DemoData ELSE returned

Main ==
    /\ pc = "returned"
    /\ data' = main_data(ret)
    /\ pc' = "render"
    /\ UNCHANGED <<upstream, studies, idx, all_data, successful_studies, log,
                   markers, animal_counts, individual_ids, animalPaths, arg, ret>>

InitRun ==
    /\ pc = "start"
    /\ studies = <<>>
    /\ idx = 0
    /\ all_data = <<>>
    /\ successful_studies = 0
    /\ log = NoLog
    /\ data = <<>>
    /\ IdleRender /\ IdleCall

Init == InitRun /\ upstream = [profile |-> "records", budget |-> MaxAnswers]

InitCaps == InitRun /\ upstream = [profile |-> "bulk", budget |-> MaxPartial]

Next == FetchStudies \/ LoopStudy \/ Return \/ Main \/ GenerateHtmlMap

Spec == Init /\ [][Next]_vars

SpecCaps == InitCaps /\ [][Next]_vars

(***************************************************************************)
(* Properties of a run of main()                                           *)
(***************************************************************************)

\* C1: when every upstream call of a run fails (none is answered with a
\* 200 and a body), main() still completes: no exception ends the run, the
\* loop stays within studies[:10] and the run has a next step until
\* generate_html_map is called (which takes its step whatever the data);
\* get_sample_data returns the empty list, main
\* substitutes the demonstration dataset, and generate_html_map is called
\* with a non-empty input holding each of the 6 taxa.  In every run the
\* input of generate_html_map is non-empty.
C1_DemoFallback ==
    /\ pc # "crashed"
    /\ idx <= Len(Attempted) + 1
    /\ (~log.answered /\ pc \notin {"render", "rendered"}) =>
         ENABLED (FetchStudies \/ LoopStudy \/ Return \/ Main)
    /\ pc \in {"render", "rendered"} =>
         /\ data # <<>>
         /\ ~log.answered =>
              /\ ret = <<>>
              /\ data = DemoData
              /\ \A k \in DOMAIN all_animal_types :
                    \E i \in DOMAIN data : data[i].animal_type = all_animal_types[k]

\* Witness of C1: the list request and the requests of all three fallback
\* studies failed, and the report was generated from the demonstration data.
C1_Witness ==
    /\ pc = "rendered"
    /\ ~log.answered
    /\ log.list \in Faults /\ log.study = Len(known_study_ids)
    /\ log.event \in Faults
    /\ ret = <<>> /\ Len(markers) = Len(DemoData)

\* The last pass of the loop failed: its event query failed, or its lookup
\* or the processing of an answer raised
FailedPass ==
    /\ log.study > 0
    /\ log.event \in Faults \/ log.raised # ""

C2_State ==
    /\ pc # "crashed"
    /\ log.list \in Faults => log.found = 0 /\ pc # "start"
    /\ (FailedPass /\ log.event # "ok") => Len(all_data) = log.before
    /\ FailedPass => pc # "break" /\ idx = log.study + 1

\* C2: whatever fails upstream (exception, timeout, non-200, unparsable
\* body), no exception escapes get_movebank_studies or get_sample_data; a
\* failed list request yields the empty list; a study whose requests failed
\* contributes no records, is not requested again (every pass of the loop
\* is over the study after the one of the pass before) and the loop goes on
\* with the next study.
C2_FailuresTolerated ==
    /\ []C2_State
    /\ [][log.study # log'.study => log'.study = log.study + 1]_vars

\* Witness of C2: both requests of the second fallback study failed after
\* the first study had contributed, and the third study is attempted next.
C2_Witness ==
    /\ pc = "loop"
    /\ log.list \in Faults
    /\ log.study = 2 /\ idx = 3
    /\ log.lookup = "non200" /\ log.event = "timeout"
    /\ all_data # <<>>

\* C3: get_movebank_studies returns at most 20 studies, the passes of the
\* loop that issue event queries are over the first 10 studies at most, and
\* get_sample_data returns at most 300 records.
C3_Caps ==
    /\ log.found <= 20
    /\ log.study <= 10
    /\ Len(Attempted) <= 10
    /\ Len(ret) <= 300

\* Witness of C3: more than 20 studies listed, the tenth study queried and
\* more than 300 records retained, of which 300 are returned.
C3_Witness ==
    /\ pc = "returned"
    /\ log.found = 20 /\ Len(studies) = 20
    /\ log.study = 10 /\ log.event = "ok"
    /\ Len(all_data) > 300 /\ Len(ret) = 300

\* C4: the records get_sample_data retains come from at most 5 studies: no
\* study is attempted once 5 studies have put records into all_data.
C4_AtMostFiveStudies == log.contributing <= 5

\* A coordinate pair the specification calls valid: two numbers, the
\* latitude in [-90, 90], the longitude in [-180, 180]
ValidPair(record) ==
    /\ {"location_lat", "location_long"} \subseteq DOMAIN record
    /\ record.location_lat.t = "num" /\ record.location_long.t = "num"
    /\ Deg(-90) <= record.location_lat.n /\ record.location_lat.n <= Deg(90)
    /\ Deg(-180) <= record.location_long.n /\ record.location_long.n <= Deg(180)

\* C5: every record of an event answer with a valid coordinate pair (0 and
\* the boundaries included) is retained, in a pass that raised nothing,
\* and generate_html_map produces one marker for each record returned.
C5_ValidRecordsRetained ==
    /\ (log.study > 0 /\ log.raised = "") =>
         Cardinality({i \in DOMAIN log.returned : ValidPair(log.returned[i])})
            <= Len(all_data) - log.before
    /\ (pc = "rendered" /\ ret # <<>>) => Len(markers) = Len(ret)

\* A coordinate of a retained record or a marker lies in [lo, hi]
Within(f, lo, hi) == f.r = "ok" /\ lo <= f.v /\ f.v <= hi

\* A coordinate pair that is present, numeric (a number, or a number as
\* text) and in range
UsablePair(record) ==
    /\ {"location_lat", "location_long"} \subseteq DOMAIN record
    /\ record.location_lat.t \in {"num", "str"}
    /\ record.location_long.t \in {"num", "str"}
    /\ Deg(-90) <= record.location_lat.n /\ record.location_lat.n <= Deg(90)
    /\ Deg(-180) <= record.location_long.n /\ record.location_long.n <= Deg(180)

\* C6: every marker has lat in [-90, 90] and lng in [-180, 180]; a record
\* whose latitude or longitude is missing, non-numeric or out of range is
\* not retained by get_sample_data and becomes no marker.
C6_MarkersInRange ==
    /\ \A i \in DOMAIN markers :
          /\ Within(markers[i].lat, Deg(-90), Deg(90))
          /\ Within(markers[i].lng, Deg(-180), Deg(180))
    /\ \A i \in DOMAIN all_data : UsablePair(all_data[i])
    /\ log.study > 0 =>
         Len(all_data) - log.before
            <= Cardinality({i \in DOMAIN log.returned : UsablePair(log.returned[i])})
    /\ pc = "rendered" => Len(markers) = Len(data)

\* Witness of C6: the last event answer held a record in range and one
\* whose longitude is a number out of range; one record was retained, and
\* the report has a marker for each record returned.
C6_Witness ==
    /\ pc = "rendered"
    /\ \E i \in DOMAIN log.returned :
          /\ "location_long" \in DOMAIN log.returned[i]
          /\ log.returned[i].location_long.t = "num"
          /\ log.returned[i].location_long.n > Deg(180)
    /\ Len(all_data) = log.before + 1
    /\ ret # <<>> /\ Len(markers) = Len(ret)

(***************************************************************************)
(* Properties of the recency score and the colour blend                    *)
(***************************************************************************)

\* clamp(1 - ageDays / 180, 0.3, 1.0) for an instant, ageDays counted from
\* 2024-07-31T00:00:00Z
ClampedScore(at) ==
    LET linear == IntensityDen - (RefNow - at)
    IN  IF linear < IntensityMin THEN IntensityMin
        ELSE IF linear > IntensityMax THEN IntensityMax
        ELSE linear

\* C11: for every ISO-8601 string, with or without a UTC offset, and every
\* epoch-millisecond number the intensity is clamp(1 - ageDays / 180, 0.3,
\* 1.0); the default 0.5 is returned for a missing or unparsable timestamp.
C11_IntensityIsClampedFormula ==
    pc = "scored" =>
        \A k \in {1, 2} :
            /\ arg[k].t \in {"iso", "num"} =>
                  ret[k] = ClampedScore(InstantOf(arg[k]).at)
            /\ arg[k].t \in {"text", "empty", "none"} => ret[k] = IntensityDefault

(***************************************************************************)
(* SpecColour: adjust_color_intensity on the colours of Colours and the    *)
(* intensities k / MaxBlendSteps.                                          *)
(***************************************************************************)

MaxBlendSteps == 4

\* The colour table, other well-formed colours in either case, and
\* malformed ones
Colours ==
    {animal_colors[a] : a \in DOMAIN animal_colors}
    \cup {"#ff6b6b", "#000000", "#ffffff", "#FFFFFF", "#0a0B0c", "#123456"}
    \cup {"#GG0000", "#FFF", "red", ""}

Intensities == {(k * IntensityDen) \div MaxBlendSteps : k \in 0..MaxBlendSteps}

InitColour ==
    /\ pc = "blend"
    /\ arg \in Colours \X Intensities
    /\ ret = <<>>
    /\ data = <<>>
    /\ IdleFetch /\ IdleRender

BlendColour ==
    /\ pc = "blend"
    /\ ret' = adjust_color_intensity(arg[1], arg[2])
    /\ pc' = "blended"
    /\ UNCHANGED <<upstream, studies, idx, all_data, successful_studies, log,
                   data, markers, animal_counts, individual_ids, animalPaths, arg>>

NextColour == BlendColour

SpecColour == InitColour /\ [][NextColour]_vars

\* '#RRGGBB': a '#' and six hexadecimal digits
WellFormed(c) ==
    /\ Len(c) = 7
    /\ SubSeq(c, 1, 1) = "#"
    /\ \A i \in 2..7 : HexDigitVal(SubSeq(c, i, i)) >= 0

C13_SyntheticIdsStayApart ==
    pc \in {"rendered", "drawn"} =>
        \A i \in DOMAIN data :
            "individual_local_identifier" \notin DOMAIN data[i] =>
                /\ \A j \in DOMAIN markers \ {i} :
                      markers[j].individual_id # markers[i].individual_id
                /\ pc = "drawn" =>
                      Len(animalPaths[markers[i].individual_id].points) = 1

(***************************************************************************)
(* Properties of the taxa of live data                                     *)
(***************************************************************************)

\* The taxa the classifier knows
ClassifierTaxa == {"bird", "mammal", "reptile", "fish", "unknown"}

\* C14: classify_animal_from_study returns one of bird, mammal, reptile,
\* fish, unknown on every study (those of StudyInfos, looked at once, at
\* the start of a run); every record get_sample_data retains has one of
\* these taxa; a report built from the records get_sample_data returned
\* shows 0 for amphibian and for insect, and a report that shows either
\* taxon is built from the demonstration dataset.
C14_LiveTaxaAreClassifierTaxa ==
    /\ pc = "start" =>
         \A info \in StudyInfos : classify_animal_from_study(info) \in ClassifierTaxa
    /\ \A i \in DOMAIN all_data : all_data[i].animal_type \in ClassifierTaxa
    /\ (pc = "rendered" /\ ret # <<>>) =>
         /\ data = ret
         /\ LegendCount("amphibian") = 0 /\ LegendCount("insect") = 0
    /\ (pc = "rendered"
          /\ (LegendCount("amphibian") > 0 \/ LegendCount("insect") > 0)) =>
         ret = <<>> /\ data = DemoData

\* Witness of C14: a report built from live records of a study classified
\* from the name its lookup gave, with a legend count for mammal and none
\* for amphibian and insect.
C14_Witness ==
    /\ pc = "rendered"
    /\ ret # <<>> /\ data = ret
    /\ \E i \in DOMAIN data : data[i].animal_type = "mammal"
    /\ LegendCount("mammal") = 1
    /\ LegendCount("amphibian") = 0 /\ LegendCount("insect") = 0

====
